---------------------------- MODULE Spec2Model ----------------------------
(***************************************************************************)
(* Model of the statement parsers of analytic-parser:                      *)
(*   freedom_parser.py  line-based extractor (format A)                    *)
(*   parser.py          the older line-based extractor                     *)
(*   kaspi_parser.py    column-mapped table extractor (format B)           *)
(*   cleaner.py         description cleaner                                *)
(*                                                                         *)
(* A Python str is a sequence of characters.  An ASCII character is the    *)
(* one-character string of itself; the others are named:                   *)
(*   "U2212"  the Unicode minus sign  (U+2212)                             *)
(*   "TENGE"  the tenge sign          (U+20B8)                             *)
(* Cyrillic letters are written by their Latin transliteration, upper case *)
(* for upper case ("d","a","t","a" is the word of kaspi_parser.py:69).     *)
(***************************************************************************)
EXTENDS Integers, Sequences, FiniteSets, TLC

VARIABLES
    \* ---- amount normalizers applied to one string
    value,              \* the argument of _to_decimal / _parse_amount
    toDecimalResult,    \* outcome of freedom_parser._to_decimal(value)
    parseAmountResult,  \* outcome of kaspi_parser._parse_amount(value)
    \* ---- configuration (config.py), fixed during a run
    FOOTER_MARKERS,     \* ordered list of footer marker phrases
    NOISE_PATTERNS,     \* ordered list of noise patterns
    KNOWN_OPERATIONS,   \* closed vocabulary of operation labels
    \* ---- description cleaner applied to one string
    text,               \* the argument of strip_footer / clean_description
    stripped,           \* strip_footer(text)
    cleanedOnce,        \* clean_description(text)
    cleanedTwice,       \* clean_description(clean_description(text))
    \* ---- one run of an extractor over one document
    bank,               \* entry point: "freedom", "legacy" or "kaspi"
    pc,                 \* "pages", "lines", "rows", "done" or "raised"
    doc,                \* the pages consumed so far, each with its units
    transactions,       \* the accumulator of the entry point
    returned,           \* the list handed to the caller
    txs,                \* _parse_page: records of the page
    current_tx,         \* _parse_page: the open block, <<>> for None
    idx_date,           \* parse_kaspi_pdf: column indices, <<>> for None
    idx_amount,
    idx_operation,
    idx_details

amountVars == <<value, toDecimalResult, parseAmountResult>>
configVars == <<FOOTER_MARKERS, NOISE_PATTERNS, KNOWN_OPERATIONS>>
cleanVars  == <<text, stripped, cleanedOnce, cleanedTwice>>

pageVars   == <<txs, current_tx>>
idxVars    == <<idx_date, idx_amount, idx_operation, idx_details>>
runVars    == <<bank, pc, doc, transactions, returned, pageVars, idxVars>>

vars == <<amountVars, configVars, cleanVars, runVars>>

(***************************************************************************)
(* Characters and strings                                                  *)
(***************************************************************************)
Digits == {"0", "1", "2", "3", "4", "5", "6", "7", "8", "9"}

DigitVal(c) ==
    CASE c = "0" -> 0 [] c = "1" -> 1 [] c = "2" -> 2 [] c = "3" -> 3
      [] c = "4" -> 4 [] c = "5" -> 5 [] c = "6" -> 6 [] c = "7" -> 7
      [] c = "8" -> 8 [] c = "9" -> 9

\* str.isspace() characters of the model
Whitespace == {" "}

Range(s) == {s[i] : i \in 1..Len(s)}

\* all strings over alphabet A of length at most n
StringsUpTo(A, n) == UNION {[1..k -> A] : k \in 0..n}

\* str.replace(old, new) for a one-character old and a new of length 0 or 1
RECURSIVE Replace(_, _, _)
Replace(s, old, new) ==
    IF s = <<>> THEN <<>>
    ELSE (IF Head(s) = old THEN new ELSE <<Head(s)>>) \o Replace(Tail(s), old, new)

\* re.sub(r"[^...]", "", s): keeps only the characters of the class
RECURSIVE KeepOnly(_, _)
KeepOnly(s, class) ==
    IF s = <<>> THEN <<>>
    ELSE (IF Head(s) \in class THEN <<Head(s)>> ELSE <<>>) \o KeepOnly(Tail(s), class)

\* number of positions of s holding a character of class
Count(s, class) == Cardinality({i \in 1..Len(s) : s[i] \in class})

(***************************************************************************)
(* decimal.Decimal                                                         *)
(* A Decimal is sign, coefficient and number of fractional digits:         *)
(* [neg, coef, scale] stands for (-1)^neg * coef / 10^scale.               *)
(***************************************************************************)
DecZero == [neg |-> FALSE, coef |-> 0, scale |-> 0]

\* the integer written by a string of digits
RECURSIVE NatOf(_)
NatOf(ds) ==
    IF ds = <<>> THEN 0
    ELSE 10 * NatOf(SubSeq(ds, 1, Len(ds) - 1)) + DigitVal(ds[Len(ds)])

\* position of the first "." of s, or 0
RECURSIVE IndexOf(_, _)
IndexOf(s, c) ==
    IF s = <<>> THEN 0
    ELSE IF Head(s) = c THEN 1
    ELSE LET r == IndexOf(Tail(s), c) IN IF r = 0 THEN 0 ELSE r + 1

\* Decimal(v) accepts v, for v made of digits, ".", "-" and "+" only:
\* an optional sign, then digits with at most one "." and at least one digit
DecimalAccepts(v) ==
    LET body == IF v # <<>> /\ Head(v) \in {"-", "+"} THEN Tail(v) ELSE v
    IN  /\ Range(body) \subseteq Digits \cup {"."}
        /\ Count(body, {"."}) <= 1
        /\ Count(body, Digits) >= 1

\* the value of Decimal(v) when DecimalAccepts(v)
DecimalValue(v) ==
    LET signed == v # <<>> /\ Head(v) \in {"-", "+"}
        body   == IF signed THEN Tail(v) ELSE v
        dot    == IndexOf(body, ".")
    IN  [neg   |-> signed /\ Head(v) = "-",
         coef  |-> NatOf(KeepOnly(body, Digits)),
         scale |-> IF dot = 0 THEN 0 ELSE Len(body) - dot]

\* Decimal(v): the value, or decimal.InvalidOperation raised
Decimal(v) ==
    IF DecimalAccepts(v)
    THEN [raised |-> FALSE, dec |-> DecimalValue(v)]
    ELSE [raised |-> TRUE, dec |-> DecZero]

\* sign of a Decimal as compared with 0 (Decimal("-0") compares equal to 0)
Sign(d) == IF d.coef = 0 THEN 0 ELSE IF d.neg THEN -1 ELSE 1

\* abs(d) and -abs(d)
Abs(d) == [d EXCEPT !.neg = FALSE]
NegAbs(d) == [d EXCEPT !.neg = TRUE]

RECURSIVE Pow10(_)
Pow10(n) == IF n = 0 THEN 1 ELSE 10 * Pow10(n - 1)

\* d1 == d2 as Decimals (numeric equality)
DecEq(d1, d2) ==
    /\ Sign(d1) = Sign(d2)
    /\ d1.coef * Pow10(d2.scale) = d2.coef * Pow10(d1.scale)

(***************************************************************************)
(* Token normalizers                                                       *)
(***************************************************************************)
\* freedom_parser._to_decimal (parser._to_decimal is the same text)
_to_decimal(v0) ==
    LET v1 == Replace(Replace(v0, "U2212", <<"-">>), " ", <<>>)
        v2 == IF "." \in Range(v1) /\ "," \in Range(v1)
              THEN Replace(v1, ",", <<>>)
              ELSE Replace(v1, ",", <<".">>)
        v3 == KeepOnly(v2, Digits \cup {".", "-"})
    IN  Decimal(IF v3 = <<>> THEN <<"0">> ELSE v3)

\* kaspi_parser._parse_amount
_parse_amount(v0) ==
    LET v1 == Replace(Replace(Replace(v0, "TENGE", <<>>), " ", <<>>), ",", <<".">>)
        v2 == KeepOnly(v1, Digits \cup {".", "-", "+"})
    IN  Decimal(IF v2 = <<>> THEN <<"0">> ELSE v2)

(***************************************************************************)
(* Description cleaner (cleaner.py)                                        *)
(***************************************************************************)
\* str.lower() on one character
Lower(c) ==
    CASE c = "A" -> "a" [] c = "B" -> "b" [] c = "C" -> "c" [] c = "D" -> "d"
      [] c = "E" -> "e" [] c = "K" -> "k" [] c = "L" -> "l" [] c = "M" -> "m"
      [] c = "O" -> "o" [] c = "P" -> "p" [] c = "R" -> "r" [] c = "S" -> "s"
      [] c = "T" -> "t" [] c = "U" -> "u" [] c = "X" -> "x"
      [] OTHER -> c

\* str.upper() on one character
Upper(c) ==
    CASE c = "a" -> "A" [] c = "b" -> "B" [] c = "c" -> "C" [] c = "d" -> "D"
      [] c = "e" -> "E" [] c = "k" -> "K" [] c = "l" -> "L" [] c = "m" -> "M"
      [] c = "o" -> "O" [] c = "p" -> "P" [] c = "r" -> "R" [] c = "s" -> "S"
      [] c = "t" -> "T" [] c = "u" -> "U" [] c = "x" -> "X"
      [] OTHER -> c

\* str.lower()
LowerStr(s) == [i \in 1..Len(s) |-> Lower(s[i])]

\* s[i:i+len(p)] == p, for a 1-based position i
MatchesAt(s, p, i) ==
    /\ i + Len(p) - 1 <= Len(s)
    /\ SubSeq(s, i, i + Len(p) - 1) = p

\* str.find(p): the 0-based index of the first occurrence of p in s, or -1
Find(s, p) ==
    LET hits == {i \in 1..(Len(s) + 1) : MatchesAt(s, p, i)}
    IN  IF hits = {} THEN -1
        ELSE (CHOOSE i \in hits : \A j \in hits : i <= j) - 1

\* the loop of strip_footer over the markers from position k of the list
RECURSIVE StripFooterFrom(_, _, _)
StripFooterFrom(txt, markers, k) ==
    IF k > Len(markers) THEN txt
    ELSE LET idx == Find(LowerStr(txt), markers[k])
         IN  IF idx # -1 THEN SubSeq(txt, 1, idx)
             ELSE StripFooterFrom(txt, markers, k + 1)

\* cleaner.strip_footer
strip_footer(txt, markers) == StripFooterFrom(txt, markers, 1)

\* re.sub(pattern, "", txt, flags=re.IGNORECASE) for a pattern that is a
\* literal phrase: the non-overlapping matches are removed, leftmost first
RECURSIVE NoiseSub(_, _)
NoiseSub(txt, pattern) ==
    IF txt = <<>> \/ pattern = <<>> THEN txt
    ELSE IF MatchesAt(LowerStr(txt), LowerStr(pattern), 1)
         THEN NoiseSub(SubSeq(txt, Len(pattern) + 1, Len(txt)), pattern)
         ELSE <<Head(txt)>> \o NoiseSub(Tail(txt), pattern)

\* the loop of clean_description over the noise patterns from position k
RECURSIVE RemoveNoiseFrom(_, _, _)
RemoveNoiseFrom(txt, patterns, k) ==
    IF k > Len(patterns) THEN txt
    ELSE RemoveNoiseFrom(NoiseSub(txt, patterns[k]), patterns, k + 1)

\* re.sub(r"\s+", " ", txt): every run of whitespace becomes one space
RECURSIVE CollapseSpaces(_)
CollapseSpaces(txt) ==
    IF txt = <<>> THEN <<>>
    ELSE IF Head(txt) \in Whitespace
         THEN IF Len(txt) > 1 /\ txt[2] \in Whitespace
              THEN CollapseSpaces(Tail(txt))
              ELSE <<" ">> \o CollapseSpaces(Tail(txt))
         ELSE <<Head(txt)>> \o CollapseSpaces(Tail(txt))

\* str.lstrip(), str.rstrip(), str.strip()
RECURSIVE LStrip(_)
LStrip(s) == IF s # <<>> /\ Head(s) \in Whitespace THEN LStrip(Tail(s)) ELSE s

RECURSIVE RStrip(_)
RStrip(s) ==
    IF s # <<>> /\ s[Len(s)] \in Whitespace
    THEN RStrip(SubSeq(s, 1, Len(s) - 1)) ELSE s

Strip(s) == RStrip(LStrip(s))

\* cleaner.clean_description under the configured markers and patterns
CleanWith(txt, markers, patterns) ==
    Strip(CollapseSpaces(RemoveNoiseFrom(strip_footer(txt, markers), patterns, 1)))

clean_description(txt) == CleanWith(txt, FOOTER_MARKERS, NOISE_PATTERNS)

(***************************************************************************)
(* datetime.strptime under "%d.%m.%Y" and "%d.%m.%y"                       *)
(***************************************************************************)
\* s.split("."): the pieces of s between its periods
RECURSIVE SplitDots(_)
SplitDots(s) ==
    LET dot == IndexOf(s, ".")
    IN  IF dot = 0 THEN <<s>>
        ELSE <<SubSeq(s, 1, dot - 1)>> \o SplitDots(SubSeq(s, dot + 1, Len(s)))

AllDigits(s) == Range(s) \subseteq Digits

\* the directive %d: 3[0-1] | [1-2]\d | 0[1-9] | [1-9] | " "[1-9]
DayDirective(s) ==
    \/ Len(s) = 2 /\ AllDigits(s) /\ NatOf(s) \in 1..31
    \/ Len(s) = 1 /\ AllDigits(s) /\ NatOf(s) \in 1..9
    \/ Len(s) = 2 /\ s[1] = " " /\ s[2] \in Digits /\ DigitVal(s[2]) \in 1..9

\* the directive %m: 1[0-2] | 0[1-9] | [1-9]
MonthDirective(s) ==
    \/ Len(s) = 2 /\ AllDigits(s) /\ NatOf(s) \in 1..12
    \/ Len(s) = 1 /\ AllDigits(s) /\ NatOf(s) \in 1..9

\* the directives %Y (four digits) and %y (two digits)
YearDirective(s, fourDigitYear) ==
    AllDigits(s) /\ Len(s) = (IF fourDigitYear THEN 4 ELSE 2)

\* the year a %y value stands for (POSIX: 69-99 are 19xx, 00-68 are 20xx)
CenturyOf(yy) == IF yy <= 68 THEN 2000 + yy ELSE 1900 + yy

IsLeap(y) == (y % 4 = 0 /\ y % 100 # 0) \/ y % 400 = 0

DaysInMonth(y, m) ==
    IF m = 2 THEN (IF IsLeap(y) THEN 29 ELSE 28)
    ELSE IF m \in {4, 6, 9, 11} THEN 30 ELSE 31

NoDate == [y |-> 0, m |-> 0, d |-> 0]

\* datetime.strptime(s, "%d.%m.%Y" or "%d.%m.%y"): the date, or ValueError
strptime(s, fourDigitYear) ==
    LET parts == SplitDots(s)
        shape == /\ Len(parts) = 3
                 /\ DayDirective(parts[1])
                 /\ MonthDirective(parts[2])
                 /\ YearDirective(parts[3], fourDigitYear)
        d  == NatOf(KeepOnly(parts[1], Digits))
        m  == NatOf(parts[2])
        y  == IF fourDigitYear THEN NatOf(parts[3]) ELSE CenturyOf(NatOf(parts[3]))
    IN  IF shape /\ y >= 1 /\ d <= DaysInMonth(y, m)
        THEN [raised |-> FALSE, date |-> [y |-> y, m |-> m, d |-> d]]
        ELSE [raised |-> TRUE, date |-> NoDate]

(***************************************************************************)
(* Head-line decoders of the line-based extractors                         *)
(*                                                                         *)
(* config.py is not part of the sources.  A line is therefore given with   *)
(* the outcome of the two configured patterns on it:                       *)
(*   kind = "text"   DATE_START_RE does not match; text is the line        *)
(*   kind = "start"  DATE_START_RE matches, TX_HEAD_RE does not            *)
(*   kind = "head"   both match; date, amount, currency, operation and     *)
(*                   details are the named groups of TX_HEAD_RE            *)
(***************************************************************************)
DATE_START_RE_match(line) == line.kind \in {"start", "head"}

TX_HEAD_RE_match(line) == line.kind = "head"

\* the value Python calls None, for fields that hold strings
None == "None"

\* a dict key that has not been assigned
Absent == "<absent>"

\* str.capitalize()
capitalize(s) ==
    [i \in 1..Len(s) |-> IF i = 1 THEN Upper(s[i]) ELSE Lower(s[i])]

\* raw_amount.startswith(("U+2212", "-"))
StartsWithMinus(raw) == raw # <<>> /\ Head(raw) \in {"U2212", "-"}

\* "expense" if amount < 0 else "income" if amount > 0 else "neutral"
DirectionOf(amount) ==
    IF Sign(amount) < 0 THEN "expense"
    ELSE IF Sign(amount) > 0 THEN "income"
    ELSE "neutral"

\* the label written at freedom_parser.py:118 and parser.py:70
DefaultOperation == <<"P", "o", "k", "u", "p", "k", "a">>

\* the capitalized token left as it is, in the vocabulary or not
CoerceOperationKeeps(raw) == capitalize(raw)

\* operation = ...capitalize(); if operation not in KNOWN_OPERATIONS: default
CoerceOperation(raw) ==
    LET operation == capitalize(raw)
    IN  IF operation \notin KNOWN_OPERATIONS THEN DefaultOperation ELSE operation

\* outcomes of a decoder: None returned, a dict returned, an exception raised
ReturnsNone == [raised |-> FALSE, head |-> <<>>]
Returns(tx) == [raised |-> FALSE, head |-> <<tx>>]
Raises      == [raised |-> TRUE,  head |-> <<>>]

\* the sign correction of freedom_parser.py:104-107
CorrectSign(raw_amount, amount) ==
    IF StartsWithMinus(raw_amount) THEN NegAbs(amount) ELSE Abs(amount)

\* freedom_parser._parse_head_line
_parse_head_line(line) ==
    IF ~TX_HEAD_RE_match(line) THEN ReturnsNone
    ELSE LET date == strptime(line.date, TRUE)
             dec  == _to_decimal(line.amount)
             amount == CorrectSign(line.amount, dec.dec)
         IN  IF date.raised \/ dec.raised THEN Raises
             ELSE Returns([date          |-> date.date,
                           amount        |-> amount,
                           currency      |-> line.currency,
                           operation     |-> CoerceOperation(line.operation),
                           description   |-> line.details,
                           direction     |-> DirectionOf(amount),
                           transfer_type |-> None,
                           source        |-> Absent])

\* the sign correction of parser.py:65-66
LegacySign(raw_amount, amount) ==
    IF StartsWithMinus(raw_amount) THEN NegAbs(amount) ELSE amount

\* parser._parse_head
_parse_head(line) ==
    IF ~TX_HEAD_RE_match(line) THEN ReturnsNone
    ELSE LET date == strptime(line.date, TRUE)
             dec  == _to_decimal(line.amount)
             amount == LegacySign(line.amount, dec.dec)
         IN  IF date.raised \/ dec.raised THEN Raises
             ELSE Returns([date          |-> date.date,
                           amount        |-> amount,
                           currency      |-> line.currency,
                           operation     |-> CoerceOperation(line.operation),
                           description   |-> line.details,
                           direction     |-> "expense",
                           transfer_type |-> None,
                           source        |-> Absent])

(***************************************************************************)
(* SpecAmount: the two amount normalizers applied to every string over     *)
(* AmountAlphabet of length at most MaxAmountLen.                          *)
(***************************************************************************)
MaxAmountLen == 3

AmountAlphabet == {"0", "5", ".", ",", "-", "+", "U2212", " ", "TENGE", "x"}

Pending == [status |-> "pending", dec |-> DecZero]

\* outcome of a call: the value returned, or the exception raised
Outcome(r) ==
    [status |-> IF r.raised THEN "raised" ELSE "returned", dec |-> r.dec]

\* the variables of the cleaner specification, at rest
CleanIdle ==
    /\ text = <<>>
    /\ stripped = [done |-> FALSE, str |-> <<>>]
    /\ cleanedOnce = [done |-> FALSE, str |-> <<>>]
    /\ cleanedTwice = [done |-> FALSE, str |-> <<>>]

\* a run that never cleans a description needs no cleaner configuration
ConfigIdle ==
    /\ FOOTER_MARKERS = <<>>
    /\ NOISE_PATTERNS = <<>>
    /\ KNOWN_OPERATIONS = {}

\* the variables of an extractor run, before any document is opened
RunIdle ==
    /\ bank = "none"
    /\ pc = "idle"
    /\ doc = <<>>
    /\ transactions = <<>>
    /\ returned = <<>>
    /\ txs = <<>>
    /\ current_tx = <<>>
    /\ idx_date = <<>> /\ idx_amount = <<>>
    /\ idx_operation = <<>> /\ idx_details = <<>>

InitAmount ==
    /\ CleanIdle /\ ConfigIdle /\ RunIdle
    /\ value \in StringsUpTo(AmountAlphabet, MaxAmountLen)
    /\ toDecimalResult = Pending
    /\ parseAmountResult = Pending

CallToDecimal ==
    /\ toDecimalResult.status = "pending"
    /\ toDecimalResult' = Outcome(_to_decimal(value))
    /\ UNCHANGED <<value, parseAmountResult, configVars, cleanVars, runVars>>

CallParseAmount ==
    /\ parseAmountResult.status = "pending"
    /\ parseAmountResult' = Outcome(_parse_amount(value))
    /\ UNCHANGED <<value, toDecimalResult, configVars, cleanVars, runVars>>

NextAmount == CallToDecimal \/ CallParseAmount

SpecAmount == InitAmount /\ [][NextAmount]_vars

\* C6: the amount normalizer is total: for every input string both
\* _to_decimal and _parse_amount return a Decimal and never raise, and an
\* input that is empty after stripping yields zero.
C6_NormalizerTotal ==
    /\ toDecimalResult.status # "raised"
    /\ parseAmountResult.status # "raised"
    /\ (/\ toDecimalResult.status = "returned"
        /\ Range(value) \cap (Digits \cup {".", ",", "-", "U2212"}) = {})
          => toDecimalResult.dec = DecZero
    /\ (/\ parseAmountResult.status = "returned"
        /\ Range(value) \cap (Digits \cup {".", ",", "-", "+"}) = {})
          => parseAmountResult.dec = DecZero

(***************************************************************************)
(* SpecClean: strip_footer applied once, clean_description once and twice, *)
(* to every string                                                         *)
(* over CleanAlphabet of length at most MaxTextLen, under each of the      *)
(* configurations of MarkerLists x NoiseLists.                             *)
(***************************************************************************)
MaxTextLen == 4

CleanAlphabet == {"a", "A", "b", " "}

\* configured footer markers: none; one phrase with a space; two markers
MarkerLists ==
    { <<>>,
      << <<"a", " ", "b">> >>,
      << <<"b">>, <<"a", "a">> >> }

\* configured noise patterns: none; one literal phrase
NoiseLists == { <<>>, << <<"a", "b">> >> }

\* the variables of the amount specification, at rest
AmountIdle ==
    /\ value = <<>>
    /\ toDecimalResult = Pending
    /\ parseAmountResult = Pending

InitClean ==
    /\ AmountIdle /\ RunIdle
    /\ FOOTER_MARKERS \in MarkerLists
    /\ NOISE_PATTERNS \in NoiseLists
    /\ KNOWN_OPERATIONS = {}
    /\ text \in StringsUpTo(CleanAlphabet, MaxTextLen)
    /\ stripped = [done |-> FALSE, str |-> <<>>]
    /\ cleanedOnce = [done |-> FALSE, str |-> <<>>]
    /\ cleanedTwice = [done |-> FALSE, str |-> <<>>]

CleanOnce ==
    /\ ~cleanedOnce.done
    /\ cleanedOnce' = [done |-> TRUE, str |-> clean_description(text)]
    /\ UNCHANGED <<text, stripped, cleanedTwice, configVars, amountVars, runVars>>

CleanAgain ==
    /\ cleanedOnce.done /\ ~cleanedTwice.done
    /\ cleanedTwice' = [done |-> TRUE, str |-> clean_description(cleanedOnce.str)]
    /\ UNCHANGED <<text, stripped, cleanedOnce, configVars, amountVars, runVars>>

StripFooter ==
    /\ ~stripped.done
    /\ stripped' = [done |-> TRUE, str |-> strip_footer(text, FOOTER_MARKERS)]
    /\ UNCHANGED <<text, cleanedOnce, cleanedTwice, configVars, amountVars, runVars>>

NextClean == StripFooter \/ CleanOnce \/ CleanAgain

SpecClean == InitClean /\ [][NextClean]_vars

\* C7: clean_description is idempotent: under every configured list of
\* footer markers and noise patterns, cleaning a cleaned description
\* returns it unchanged.
C7_CleanIdempotent ==
    cleanedTwice.done => cleanedTwice.str = cleanedOnce.str

(***************************************************************************)
(* Line-based extractors: freedom_parser.parse_freedom_pdf and             *)
(* parser.parse_pdf.  One action per iteration of each loop.               *)
(***************************************************************************)
MaxPages == 2      \* pages of a document
MaxUnits == 3      \* lines (rows) of a document, over all its pages

\* a page as the page-extraction layer hands it over: present is FALSE when
\* extract_text() / extract_table() gave nothing; units are the lines
\* (rows) the loop has consumed so far
NoContent == [present |-> FALSE, units |-> <<>>]
NewPage   == [present |-> TRUE,  units |-> <<>>]

RECURSIVE TotalUnits(_)
TotalUnits(d) ==
    IF d = <<>> THEN 0 ELSE Len(Head(d).units) + TotalUnits(Tail(d))

\* the document with one more unit consumed on its current page
Consume(d, unit) ==
    [d EXCEPT ![Len(d)] = [@ EXCEPT !.units = Append(@, unit)]]

\* the units consumed so far on the current page
CurrentUnits == doc[Len(doc)].units

\* flush() that appends the block as it is, without cleaning its description
flushUncleaned(t, cur) ==
    IF cur # <<>>
    THEN [txs |-> Append(t, cur[1]), current_tx |-> <<>>]
    ELSE [txs |-> t, current_tx |-> cur]

\* flush() that leaves the block open after appending it
flushKeepsOpen(t, cur) ==
    IF cur # <<>>
    THEN [txs |-> Append(t, [cur[1] EXCEPT
                               !.description = clean_description(@)]),
          current_tx |-> cur]
    ELSE [txs |-> t, current_tx |-> cur]

\* the closure flush() of _parse_page
flush(t, cur) ==
    IF cur # <<>>
    THEN [txs |-> Append(t, [cur[1] EXCEPT
                               !.description = clean_description(@)]),
          current_tx |-> <<>>]
    ELSE [txs |-> t, current_tx |-> cur]

\* current_tx["description"] += " " + line
AppendLine(cur, line) ==
    <<[cur[1] EXCEPT !.description = @ \o <<" ">> \o line.text]>>

\* the head-line decoder each entry point calls
DecodeHead(b, line) ==
    IF b = "freedom" THEN _parse_head_line(line) ELSE _parse_head(line)

\* the loop body that leaves the flushed block open when the head does not
\* decode
ParseLineKeepsStale(b, t, cur, line) ==
    IF DATE_START_RE_match(line)
    THEN LET f    == flush(t, cur)
             head == DecodeHead(b, line)
         IN  [raised     |-> head.raised,
              txs        |-> f.txs,
              current_tx |-> IF head.head # <<>> THEN head.head ELSE cur]
    ELSE [raised     |-> FALSE,
          txs        |-> t,
          current_tx |-> IF cur # <<>> THEN AppendLine(cur, line) ELSE cur]

\* one iteration of "for line in lines" of _parse_page
ParseLine(b, t, cur, line) ==
    IF DATE_START_RE_match(line)
    THEN LET f    == flush(t, cur)
             head == DecodeHead(b, line)
         IN  [raised     |-> head.raised,
              txs        |-> f.txs,
              current_tx |-> IF head.head # <<>> THEN head.head ELSE f.current_tx]
    ELSE [raised     |-> FALSE,
          txs        |-> t,
          current_tx |-> IF cur # <<>> THEN AppendLine(cur, line) ELSE cur]

\* for tx in transactions: tx["source"] = "freedom"
TagSource(ts, tag) == [i \in 1..Len(ts) |-> [ts[i] EXCEPT !.source = tag]]

\* page.extract_text() is empty: continue
SkipPage ==
    /\ bank \in {"freedom", "legacy"} /\ pc = "pages"
    /\ Len(doc) < MaxPages
    /\ doc' = Append(doc, NoContent)
    /\ UNCHANGED <<bank, pc, transactions, returned, pageVars, idxVars>>
    /\ UNCHANGED <<amountVars, configVars, cleanVars>>

\* _parse_page(lines) is entered
BeginPage ==
    /\ bank \in {"freedom", "legacy"} /\ pc = "pages"
    /\ Len(doc) < MaxPages
    /\ doc' = Append(doc, NewPage)
    /\ pc' = "lines"
    /\ txs' = <<>>
    /\ current_tx' = <<>>
    /\ UNCHANGED <<bank, transactions, returned, idxVars>>
    /\ UNCHANGED <<amountVars, configVars, cleanVars>>

\* _parse_page returns: flush(), then transactions.extend(...)
EndPage ==
    /\ bank \in {"freedom", "legacy"} /\ pc = "lines"
    /\ transactions' = transactions \o flush(txs, current_tx).txs
    /\ txs' = <<>>
    /\ current_tx' = flush(txs, current_tx).current_tx
    /\ pc' = "pages"
    /\ UNCHANGED <<bank, doc, returned, idxVars>>
    /\ UNCHANGED <<amountVars, configVars, cleanVars>>

\* the pages are exhausted: the entry point returns
ReturnLines ==
    /\ bank \in {"freedom", "legacy"} /\ pc = "pages"
    /\ returned' = IF bank = "freedom"
                   THEN TagSource(transactions, "freedom")
                   ELSE transactions
    /\ pc' = "done"
    /\ UNCHANGED <<bank, doc, transactions, pageVars, idxVars>>
    /\ UNCHANGED <<amountVars, configVars, cleanVars>>

\* ---- the lines a page is made of
TextLine(t) ==
    [kind |-> "text", text |-> t, date |-> <<>>, amount |-> <<>>,
     currency |-> "", operation |-> <<>>, details |-> <<>>]

StartLine(t) ==
    [kind |-> "start", text |-> t, date |-> <<>>, amount |-> <<>>,
     currency |-> "", operation |-> <<>>, details |-> <<>>]

HeadLine(date, amount, operation, details) ==
    [kind |-> "head", text |-> <<>>, date |-> date, amount |-> amount,
     currency |-> "KZT", operation |-> operation, details |-> details]

Date_17_12_2025 == <<"1", "7", ".", "1", "2", ".", "2", "0", "2", "5">>
Date_29_02_2024 == <<"2", "9", ".", "0", "2", ".", "2", "0", "2", "4">>
Date_31_13_2025 == <<"3", "1", ".", "1", "3", ".", "2", "0", "2", "5">>

Perevod == <<"P", "e", "r", "e", "v", "o", "d">>

\* "17.12.2025 -5,0 KZT perevod a": an expense with a known operation
HeadExpense ==
    HeadLine(Date_17_12_2025, <<"-", "5", ",", "0">>,
             <<"p", "e", "r", "e", "v", "o", "d">>, <<"a">>)

\* "29.02.2024 +1 0,5 KZT DOHOD": an income, unknown operation, no details
HeadIncome ==
    HeadLine(Date_29_02_2024, <<"+", "1", " ", "0", ",", "5">>,
             <<"D", "O", "H", "O", "D">>, <<>>)

\* "31.13.2025 -5,0 KZT perevod a": the head pattern matches, no such date
HeadBadDate ==
    HeadLine(Date_31_13_2025, <<"-", "5", ",", "0">>,
             <<"p", "e", "r", "e", "v", "o", "d">>, <<"a">>)

\* a line that begins with a date and is no head line
StartOnly == StartLine(Date_17_12_2025 \o <<" ", "x">>)

LinePool ==
    { HeadExpense, HeadIncome, HeadBadDate, StartOnly,
      TextLine(<<"b">>), TextLine(<<"c">>) }

\* one line of the page goes through the loop of _parse_page; an exception
\* of the decoder leaves _parse_page and the entry point
PageLine ==
    /\ bank \in {"freedom", "legacy"} /\ pc = "lines"
    /\ TotalUnits(doc) < MaxUnits
    /\ \E line \in LinePool :
         LET r == ParseLine(bank, txs, current_tx, line)
         IN  /\ doc' = Consume(doc, line)
             /\ txs' = r.txs
             /\ current_tx' = r.current_tx
             /\ pc' = IF r.raised THEN "raised" ELSE "lines"
    /\ UNCHANGED <<bank, transactions, returned, idxVars>>
    /\ UNCHANGED <<amountVars, configVars, cleanVars>>

\* ---- the configuration of config.py the extractors are run under: one
\* footer marker, one noise phrase and a vocabulary of one label, so that
\* the default label is not itself in the vocabulary
Configurations ==
    { [markers |-> << <<"c">> >>, noise |-> << <<"a", " ", "b">> >>,
       known |-> {Perevod}] }

InitRun(banks) ==
    /\ AmountIdle /\ CleanIdle
    /\ \E c \in Configurations :
         /\ FOOTER_MARKERS = c.markers
         /\ NOISE_PATTERNS = c.noise
         /\ KNOWN_OPERATIONS = c.known
    /\ bank \in banks
    /\ pc = "pages"
    /\ doc = <<>>
    /\ transactions = <<>>
    /\ returned = <<>>
    /\ txs = <<>>
    /\ current_tx = <<>>
    /\ idx_date = <<>> /\ idx_amount = <<>>
    /\ idx_operation = <<>> /\ idx_details = <<>>

NextLines == SkipPage \/ BeginPage \/ PageLine \/ EndPage \/ ReturnLines

\* parser.parse_pdf on every document within the bounds
InitLegacy == InitRun({"legacy"})

SpecLegacy == InitLegacy /\ [][NextLines]_vars

(***************************************************************************)
(* Column-mapped table extractor: kaspi_parser.parse_kaspi_pdf             *)
(*                                                                         *)
(* A row of extract_table() is a sequence of cells; a cell is <<>> for     *)
(* None and <<s>> for the string s.  A column index is <<>> for None and   *)
(* <<i>> for the 0-based position i.                                       *)
(***************************************************************************)
\* row = [(cell or "").strip() for cell in row]
NormalizeRow(row) ==
    [i \in 1..Len(row) |-> IF row[i] = <<>> THEN <<>> ELSE Strip(row[i][1])]

\* " ".join(cells)
RECURSIVE Join(_)
Join(cells) ==
    IF cells = <<>> THEN <<>>
    ELSE IF Len(cells) = 1 THEN cells[1]
    ELSE cells[1] \o <<" ">> \o Join(Tail(cells))

\* [x for x in s if keep(x)] for keep = "is not empty"
RECURSIVE NonEmpty(_)
NonEmpty(cells) ==
    IF cells = <<>> THEN <<>>
    ELSE (IF Head(cells) # <<>> THEN <<Head(cells)>> ELSE <<>>) \o NonEmpty(Tail(cells))

\* kw in s
Contains(s, kw) ==
    \E i \in 1..(Len(s) - Len(kw) + 1) :
        \A j \in 1..Len(kw) : s[i + j - 1] = kw[j]

\* the substrings of kaspi_parser.py:69-71 and :118-124, transliterated
KwDate      == <<"d", "a", "t", "a">>
KwAmount    == <<"s", "u", "m", "m">>
KwOperation == <<"o", "p", "e", "r", "a", "c">>
KwDetails   == <<"d", "e", "t", "a", "l">>

\* kaspi_parser._looks_like_header
_looks_like_header(row) ==
    LET joined == Join(NonEmpty([i \in 1..Len(row) |-> LowerStr(row[i])]))
    IN  /\ Contains(joined, KwDate)
        /\ Contains(joined, KwAmount)
        /\ Contains(joined, KwOperation)

\* the if/elif chain of kaspi_parser.py:117-125 on the cell at 0-based i
AssignColumn(ix, cell, i) ==
    LET low == LowerStr(cell)
    IN  IF Contains(low, KwDate) THEN [ix EXCEPT !.date = <<i>>]
        ELSE IF Contains(low, KwAmount) THEN [ix EXCEPT !.amount = <<i>>]
        ELSE IF Contains(low, KwOperation) THEN [ix EXCEPT !.operation = <<i>>]
        ELSE IF Contains(low, KwDetails) THEN [ix EXCEPT !.details = <<i>>]
        ELSE ix

\* for i, cell in enumerate(row): ..., from the cell at 1-based position k
RECURSIVE AssignColumnsFrom(_, _, _)
AssignColumnsFrom(ix, row, k) ==
    IF k > Len(row) THEN ix
    ELSE AssignColumnsFrom(AssignColumn(ix, row[k], k - 1), row, k + 1)

\* re.match(r"\d{2}\.\d{2}\.\d{2}", s)
DatePrefix(s) ==
    /\ Len(s) >= 8
    /\ \A i \in {1, 2, 4, 5, 7, 8} : s[i] \in Digits
    /\ s[3] = "." /\ s[6] = "."

\* kaspi_parser._looks_like_transaction_row
_looks_like_transaction_row(row) ==
    IF row = <<>> \/ row[1] = <<>> THEN FALSE
    ELSE DatePrefix(Strip(row[1]))

\* a date parser that hands back a date for every cell
ParseDateUnchecked(v) == [strptime(Strip(v), FALSE) EXCEPT !.raised = FALSE]

\* kaspi_parser._parse_date: the date, or None (here raised) on any failure
_parse_date(v) == strptime(Strip(v), FALSE)

\* row[idx] for a 0-based idx raises IndexError past the end of the row
InRow(row, i) == i[1] + 1 <= Len(row)
Cell(row, i) == row[i[1] + 1]

\* the body of the try block of kaspi_parser.py:137-163:
\* "skip" (unparsable date), "exception", or "tx" with the record
DecodeRow(row, ix) ==
    LET skip == [status |-> "skip", tx |-> <<>>]
        exc  == [status |-> "exception", tx |-> <<>>]
    IN  IF ~InRow(row, ix.date) THEN exc
        ELSE IF _parse_date(Cell(row, ix.date)).raised THEN skip
        ELSE IF ~InRow(row, ix.amount) THEN exc
        ELSE IF _parse_amount(Cell(row, ix.amount)).raised THEN exc
        ELSE IF ~InRow(row, ix.operation) THEN exc
        ELSE IF ix.details # <<>> /\ ~InRow(row, ix.details) THEN exc
        ELSE LET amount == _parse_amount(Cell(row, ix.amount)).dec
                 description == IF ix.details # <<>>
                                THEN Cell(row, ix.details) ELSE <<>>
             IN  [status |-> "tx",
                  tx |-> <<[date          |-> _parse_date(Cell(row, ix.date)).date,
                            amount        |-> amount,
                            currency      |-> "KZT",
                            operation     |-> capitalize(Cell(row, ix.operation)),
                            description   |-> clean_description(description),
                            direction     |-> DirectionOf(amount),
                            transfer_type |-> None,
                            source        |-> "kaspi"]>>]

\* the exception of a row leaving the loop and parse_kaspi_pdf
ExceptPropagates == "raised"

\* except Exception: continue -- where the loop goes after a row raised
ExceptContinue == "rows"

\* the column indices set to None at the start of every page
IndicesResetPerPage(ix) ==
    [date |-> <<>>, amount |-> <<>>, operation |-> <<>>, details |-> <<>>]

\* the column indices the rows of a new page start with: those the
\* previous pages left (kaspi_parser.py:99 is outside the page loop)
IndicesAtPageStart(ix) == ix

\* one iteration of "for row_num, row in enumerate(table)": the indices, the
\* records appended and the position after it
ProcessRow(ix, raw) ==
    LET row  == NormalizeRow(raw)
        same == [ix |-> ix, out |-> <<>>, pc |-> "rows"]
    IN  IF _looks_like_header(row)
        THEN [same EXCEPT !.ix = AssignColumnsFrom(ix, row, 1)]
        ELSE IF ix.date = <<>> \/ ix.amount = <<>> \/ ix.operation = <<>>
        THEN same
        ELSE IF ~_looks_like_transaction_row(row) THEN same
        ELSE LET d == DecodeRow(row, ix)
             IN  IF d.status = "exception" THEN [same EXCEPT !.pc = ExceptContinue]
                 ELSE [same EXCEPT !.out = d.tx]

\* the four column indices as one mapping
Indices ==
    [date |-> idx_date, amount |-> idx_amount,
     operation |-> idx_operation, details |-> idx_details]

SetIndices(ix) ==
    /\ idx_date' = ix.date
    /\ idx_amount' = ix.amount
    /\ idx_operation' = ix.operation
    /\ idx_details' = ix.details

\* ---- the rows a table is made of
Str(s) == <<s>>

CellDate17   == Str(<<"1", "7", ".", "1", "2", ".", "2", "5">>)
CellDate3113 == Str(<<"3", "1", ".", "1", "3", ".", "2", "5">>)
CellData     == Str(<<"D", "a", "t", "a">>)
CellSumma    == Str(<<"S", "u", "m", "m", "a">>)
CellOperac   == Str(<<"O", "p", "e", "r", "a", "c">>)
CellDetal    == Str(<<"D", "e", "t", "a", "l">>)

\* "Data | Operac | Summa | Detal"
HeaderFull == <<CellData, CellOperac, CellSumma, CellDetal>>

\* "Data operac | Summa": one cell names two columns
HeaderMerged ==
    <<Str(<<"D", "a", "t", "a", " ", "o", "p", "e", "r", "a", "c">>), CellSumma>>

\* "17.12.25 | DOHOD | -5,0 | a ": an operation outside KNOWN_OPERATIONS
RowExpense ==
    <<CellDate17, Str(<<"D", "O", "H", "O", "D">>),
      Str(<<"-", "5", ",", "0">>), Str(<<"a", " ">>)>>

\* "17.12.25 | DOHOD": shorter than the columns of a header
RowShort == <<CellDate17, Str(<<"D", "O", "H", "O", "D">>)>>

\* "31.13.25 | perevod | -5,0 | a": looks like a date, is none
RowBadDate ==
    <<CellDate3113, Str(<<"p", "e", "r", "e", "v", "o", "d">>),
      Str(<<"-", "5", ",", "0">>), Str(<<"a">>)>>

\* "None | x": a totals or section row
RowJunk == <<<<>>, Str(<<"x">>)>>

RowPool ==
    { HeaderFull, HeaderMerged, RowExpense, RowShort, RowBadDate, RowJunk }

\* page.extract_table() found no table: continue
NoTable ==
    /\ bank = "kaspi" /\ pc = "pages"
    /\ Len(doc) < MaxPages
    /\ doc' = Append(doc, NoContent)
    /\ UNCHANGED <<bank, pc, transactions, returned, pageVars, idxVars>>
    /\ UNCHANGED <<amountVars, configVars, cleanVars>>

\* the rows of the table of the next page are entered
BeginTable ==
    /\ bank = "kaspi" /\ pc = "pages"
    /\ Len(doc) < MaxPages
    /\ doc' = Append(doc, NewPage)
    /\ pc' = "rows"
    /\ SetIndices(IndicesAtPageStart(Indices))
    /\ UNCHANGED <<bank, transactions, returned, pageVars>>
    /\ UNCHANGED <<amountVars, configVars, cleanVars>>

\* one row of the table goes through the loop body
TableRow ==
    /\ bank = "kaspi" /\ pc = "rows"
    /\ TotalUnits(doc) < MaxUnits
    /\ \E raw \in RowPool :
         LET r == ProcessRow(Indices, raw)
         IN  /\ doc' = Consume(doc, raw)
             /\ SetIndices(r.ix)
             /\ transactions' = transactions \o r.out
             /\ pc' = r.pc
    /\ UNCHANGED <<bank, returned, pageVars>>
    /\ UNCHANGED <<amountVars, configVars, cleanVars>>

\* the rows of the table are exhausted; a table has at least one row, an
\* empty one being no table (kaspi_parser.py:103)
EndTable ==
    /\ bank = "kaspi" /\ pc = "rows"
    /\ CurrentUnits # <<>>
    /\ pc' = "pages"
    /\ UNCHANGED <<bank, doc, transactions, returned, pageVars, idxVars>>
    /\ UNCHANGED <<amountVars, configVars, cleanVars>>

\* the pages are exhausted: parse_kaspi_pdf returns
ReturnTable ==
    /\ bank = "kaspi" /\ pc = "pages"
    /\ returned' = transactions
    /\ pc' = "done"
    /\ UNCHANGED <<bank, doc, transactions, pageVars, idxVars>>
    /\ UNCHANGED <<amountVars, configVars, cleanVars>>

NextTable == NoTable \/ BeginTable \/ TableRow \/ EndTable \/ ReturnTable

(***************************************************************************)
(* Spec: one statement handed to the extractor of its format (app.py picks *)
(* the extractor by the file name), for every document within the bounds.  *)
(***************************************************************************)
Init == InitRun({"freedom", "kaspi"})

Next ==
    \/ SkipPage \/ BeginPage \/ PageLine \/ EndPage \/ ReturnLines
    \/ NoTable \/ BeginTable \/ TableRow \/ EndTable \/ ReturnTable

Spec == Init /\ [][Next]_vars

(***************************************************************************)
(* What the lines of a page say, read off the page itself                  *)
(***************************************************************************)
\* the line is a head that the decoder of parse_freedom_pdf turns into a record
DecodesAsHead(line) ==
    /\ DATE_START_RE_match(line)
    /\ ~_parse_head_line(line).raised
    /\ _parse_head_line(line).head # <<>>

\* the position after the block that starts at i: the next transaction-start
\* line, or the end of the page
BlockEnd(ls, i) ==
    LET starts == {j \in (i + 1)..Len(ls) : DATE_START_RE_match(ls[j])}
    IN  IF starts = {} THEN Len(ls) + 1
        ELSE CHOOSE j \in starts : \A k \in starts : j <= k

\* the lines ls[from..to], each preceded by one space, in order
RECURSIVE SpacedLines(_, _, _)
SpacedLines(ls, from, to) ==
    IF from > to THEN <<>>
    ELSE <<" ">> \o ls[from].text \o SpacedLines(ls, from + 1, to)

\* the details token of the head at i followed by its continuation lines
BlockText(ls, i) == ls[i].details \o SpacedLines(ls, i + 1, BlockEnd(ls, i) - 1)

\* the elements of a set of numbers in increasing order
RECURSIVE Ascending(_)
Ascending(S) ==
    IF S = {} THEN <<>>
    ELSE LET m == CHOOSE x \in S : \A y \in S : x <= y
         IN  <<m>> \o Ascending(S \ {m})

\* positions of the heads of ls that decode, in page order
DecodedHeads(ls) == Ascending({i \in 1..Len(ls) : DecodesAsHead(ls[i])})

\* the record of the head at i, with the given description
BlockRecord(ls, i, description) ==
    [_parse_head_line(ls[i]).head[1] EXCEPT !.description = description]

\* the records of the blocks of ls that a later start line has closed
ClosedBlocks(ls) ==
    LET hs == DecodedHeads(ls)
        closed == SelectSeq(hs, LAMBDA i : BlockEnd(ls, i) <= Len(ls))
    IN  [k \in 1..Len(closed) |->
            BlockRecord(ls, closed[k], clean_description(BlockText(ls, closed[k])))]

\* the block still open after ls: the last start line, if it decoded
OpenBlock(ls) ==
    LET hs == DecodedHeads(ls)
        open == SelectSeq(hs, LAMBDA i : BlockEnd(ls, i) > Len(ls))
    IN  [k \in 1..Len(open) |-> BlockRecord(ls, open[k], BlockText(ls, open[k]))]

\* the records of a whole page: one per decoded head, each block cleaned
PageRecords(ls) ==
    LET hs == DecodedHeads(ls)
    IN  [k \in 1..Len(hs) |->
            BlockRecord(ls, hs[k], clean_description(BlockText(ls, hs[k])))]

\* the records of the pages of d, in page order
RECURSIVE DocRecords(_)
DocRecords(d) ==
    IF d = <<>> THEN <<>>
    ELSE DocRecords(SubSeq(d, 1, Len(d) - 1)) \o PageRecords(d[Len(d)].units)

\* the pages before the current one
EarlierPages == SubSeq(doc, 1, Len(doc) - 1)

\* C1: in _parse_page every head line that decodes produces exactly one
\* record, whose description is clean_description of the head's details
\* token followed by each continuation line up to the next transaction-start
\* line or the end of the page, each appended with one space, in order;
\* the open block holds the same text uncleaned until it is flushed.
C1_BlockDescription ==
    bank = "freedom" =>
        /\ pc \in {"lines", "raised"} =>
              /\ txs = ClosedBlocks(CurrentUnits)
              /\ current_tx = OpenBlock(CurrentUnits)
        /\ pc = "pages" => transactions = DocRecords(doc)

\* a page head, text, head: the first block was merged with its
\* continuation line and flushed by the second head
C1_Witness ==
    /\ bank = "freedom" /\ pc = "lines"
    /\ Len(CurrentUnits) = 3
    /\ CurrentUnits[1] = HeadIncome
    /\ CurrentUnits[2].kind = "text"
    /\ Len(txs) = 1 /\ txs[1].description = <<"b">>
    /\ current_tx # <<>>

\* no start line of ls has decoded as a head
NoHeadYet(ls) == DecodedHeads(ls) = <<>>

\* C2: the open block never crosses a page boundary: between pages no block
\* is open, the lines of a page before its first decoded head leave the page
\* without any block or record, and the records of the earlier pages are
\* those of their own lines whatever the current page holds.
C2_NoCarryAcrossPages ==
    bank = "freedom" =>
        /\ pc = "pages" => current_tx = <<>>
        /\ pc = "lines" =>
              /\ NoHeadYet(CurrentUnits) => (current_tx = <<>> /\ txs = <<>>)
              /\ transactions = DocRecords(EarlierPages)

\* page 1 ended with an open block; page 2 begins with a continuation line
\* and then a head: the line went to neither record
C2_Witness ==
    /\ bank = "freedom" /\ pc = "lines"
    /\ Len(doc) = 2
    /\ doc[1].units = <<HeadExpense>>
    /\ CurrentUnits = <<TextLine(<<"b">>), HeadIncome>>
    /\ Len(transactions) = 1 /\ transactions[1].description = <<"a">>
    /\ current_tx # <<>> /\ current_tx[1].description = <<>>

(***************************************************************************)
(* What the rows of a document say, read off the document itself           *)
(***************************************************************************)
\* the units of all pages of d, in document order
RECURSIVE FlatUnits(_)
FlatUnits(d) == IF d = <<>> THEN <<>> ELSE Head(d).units \o FlatUnits(Tail(d))

NoIndices == [date |-> <<>>, amount |-> <<>>, operation |-> <<>>, details |-> <<>>]

MappingKnown(ix) == ix.date # <<>> /\ ix.amount # <<>> /\ ix.operation # <<>>

\* the trimmed row is a data row under the mapping ix: no header, every
\* needed column known, a first cell that begins like a date
IsDataRow(row, ix) ==
    /\ ~_looks_like_header(row)
    /\ MappingKnown(ix)
    /\ _looks_like_transaction_row(row)

\* the rows of RowPool trimmed, and which of them are header rows
TrimmedRow == [raw \in RowPool |-> NormalizeRow(raw)]
HeaderRow  == [raw \in RowPool |-> _looks_like_header(NormalizeRow(raw))]
DateLikeRow == [raw \in RowPool |-> _looks_like_transaction_row(NormalizeRow(raw))]

\* the rows of rows from position k on that yield a record, each trimmed
\* and with the column mapping in force at it: ix is the mapping after the
\* rows before k, which only header rows change
RECURSIVE YieldingFrom(_, _, _)
YieldingFrom(rows, k, ix) ==
    IF k > Len(rows) THEN <<>>
    ELSE LET row == TrimmedRow[rows[k]]
         IN  IF HeaderRow[rows[k]]
             THEN YieldingFrom(rows, k + 1, AssignColumnsFrom(ix, row, 1))
             ELSE IF /\ MappingKnown(ix)
                     /\ DateLikeRow[rows[k]]
                     /\ DecodeRow(row, ix).status = "tx"
             THEN <<[row |-> row, ix |-> ix]>> \o YieldingFrom(rows, k + 1, ix)
             ELSE YieldingFrom(rows, k + 1, ix)

\* the rows that yield a record when rows is read as one table that starts
\* with no column known
YieldingRows(rows) == YieldingFrom(rows, 1, NoIndices)

\* the records of rows read as one table
TableRecords(rows) ==
    LET ys == YieldingRows(rows)
    IN  [k \in 1..Len(ys) |-> DecodeRow(ys[k].row, ys[k].ix).tx[1]]

\* d has exactly one header row, and it is on its first page
HeaderRowsOf(rows) == {k \in 1..Len(rows) : HeaderRow[rows[k]]}

OneHeaderOnPageOne(d) ==
    /\ d # <<>>
    /\ Cardinality(HeaderRowsOf(FlatUnits(d))) = 1
    /\ Cardinality(HeaderRowsOf(d[1].units)) = 1

\* the header row of the first page
FirstPageHeader(d) ==
    d[1].units[CHOOSE k \in HeaderRowsOf(d[1].units) : TRUE]

\* d with that header row put at the top of every later table
HeaderOnEveryPage(d) ==
    [p \in 1..Len(d) |->
        IF p > 1 /\ d[p].present
        THEN [d[p] EXCEPT !.units = <<FirstPageHeader(d)>> \o @]
        ELSE d[p]]

\* one unit has gone through the loop body in this step
UnitConsumed == TotalUnits(doc') = TotalUnits(doc) + 1

\* the unit consumed in this step
ConsumedUnit == doc'[Len(doc')].units[Len(doc'[Len(doc')].units)]

\* every record the run holds
AllRecords ==
    Range(txs) \cup Range(current_tx) \cup Range(transactions) \cup Range(returned)

\* C3: column indices learned from a header row persist across later rows
\* and pages (pages without a table and pages without a header included)
\* until a later header row reassigns them: an index once set is never None
\* again, only a header row changes an index, the records are those of the
\* rows of all pages read as one table, and a document whose only header is
\* on page 1 yields the records it would yield with that header at the top
\* of every later page.
C3_IndicesPersist ==
    [][bank = "kaspi" =>
          /\ idx_date # <<>> => idx_date' # <<>>
          /\ idx_amount # <<>> => idx_amount' # <<>>
          /\ idx_operation # <<>> => idx_operation' # <<>>
          /\ idx_details # <<>> => idx_details' # <<>>
          /\ ~(UnitConsumed /\ HeaderRow[ConsumedUnit])
                => idxVars' = idxVars
          /\ transactions' = TableRecords(FlatUnits(doc'))
          /\ OneHeaderOnPageOne(doc')
                => transactions' = TableRecords(FlatUnits(HeaderOnEveryPage(doc')))
      ]_vars

\* the header is on page 1 only; the two rows of page 2 were extracted
C3_Witness ==
    /\ bank = "kaspi"
    /\ Len(doc) = 2
    /\ doc[1].units = <<HeaderFull>>
    /\ doc[2].units = <<RowExpense, RowExpense>>
    /\ Len(transactions) = 2
    /\ idx_date = <<0>> /\ idx_amount = <<2>> /\ idx_details = <<3>>

\* the row consumed in this step raised inside the try block
RowRaised ==
    /\ bank = "kaspi" /\ UnitConsumed
    /\ IsDataRow(NormalizeRow(ConsumedUnit), Indices)
    /\ DecodeRow(NormalizeRow(ConsumedUnit), Indices).status = "exception"

\* the row consumed in this step decodes to a record
RowValid ==
    /\ bank = "kaspi" /\ UnitConsumed
    /\ IsDataRow(NormalizeRow(ConsumedUnit), Indices)
    /\ DecodeRow(NormalizeRow(ConsumedUnit), Indices).status = "tx"

\* C4: a row whose decoding raises is skipped: no record is emitted, the
\* column indices and the records emitted so far are unchanged and the loop
\* goes on; every valid row, also after such a row, is extracted.
C4_RaisingRowSkipped ==
    [][/\ RowRaised =>
            /\ idxVars' = idxVars
            /\ transactions' = transactions
            /\ pc' = "rows"
       /\ RowValid =>
            /\ transactions' =
                  Append(transactions, DecodeRow(NormalizeRow(ConsumedUnit), Indices).tx[1])
            /\ pc' = "rows"
      ]_vars

\* a header, a row too short for its columns, then a valid row on the same
\* page: the valid row was extracted
C4_Witness ==
    /\ bank = "kaspi" /\ pc = "rows"
    /\ CurrentUnits = <<HeaderFull, RowShort, RowExpense>>
    /\ Len(transactions) = 1
    /\ transactions[1].description = <<"a">>

\* the head pattern matches the line, its date token is no calendar date
HeadWithBadDate(line) ==
    TX_HEAD_RE_match(line) /\ strptime(line.date, TRUE).raised

\* the data row's cell at the date column does not parse
RowWithBadDate(row, ix) ==
    /\ InRow(row, ix.date)
    /\ _parse_date(Cell(row, ix.date)).raised

\* C5: an unparsable date never aborts extraction and never produces a
\* record: in format A a head line with such a date is dropped, the
\* reconstructor goes to Idle and the loop goes on; in format B the row is
\* skipped and the loop goes on.
C5_UnparsableDateDropped ==
    [][UnitConsumed =>
          /\ (bank = "freedom" /\ HeadWithBadDate(ConsumedUnit)) =>
                /\ pc' = "lines"
                /\ current_tx' = <<>>
                /\ transactions' = transactions
          /\ (/\ bank = "kaspi"
              /\ IsDataRow(NormalizeRow(ConsumedUnit), Indices)
              /\ RowWithBadDate(NormalizeRow(ConsumedUnit), Indices)) =>
                /\ pc' = "rows"
                /\ transactions' = transactions
      ]_vars

\* the records flushed, collected or returned so far
EmittedRecords == Range(txs) \cup Range(transactions) \cup Range(returned)

\* C8: for every record emitted by any extractor, direction is determined
\* by the sign of the record's amount: income when positive, expense when
\* negative, neutral when zero.
C8_DirectionFromSign ==
    \A r \in EmittedRecords : r.direction = DirectionOf(r.amount)

\* the decoded head lines of d, in document order
DecodedHeadLines(d) == SelectSeq(FlatUnits(d), DecodesAsHead)

OwedRecords(d) ==
    IF bank = "kaspi" THEN TableRecords(FlatUnits(d))
    ELSE TagSource(DocRecords(d), "freedom")

\* C10: the output of an extractor is in order-preserving one-to-one
\* correspondence with the accepted units: once the run is over, the caller
\* holds one record per head line (row) that decoded, in page order and in
\* the order of the page, each with the source tag of its extractor and a
\* null transfer_type; none is dropped, repeated or reordered.
C10_OrderedCorrespondence ==
    pc \in {"done", "raised"} =>
        /\ returned = OwedRecords(doc)
        /\ \A i \in 1..Len(returned) :
              /\ returned[i].transfer_type = None
              /\ returned[i].source = (IF bank = "kaspi" THEN "kaspi" ELSE "freedom")

\* the token t with its leading Unicode minus written as an ASCII hyphen
WithAsciiHyphen(t) == <<"-">> \o Tail(t)

\* a token that opens with the Unicode minus and whose ASCII spelling both
\* normalizers decode
UnicodeMinusToken(t) ==
    /\ t # <<>> /\ Head(t) = "U2212"
    /\ ~_to_decimal(WithAsciiHyphen(t)).raised
    /\ ~_parse_amount(WithAsciiHyphen(t)).raised

\* the amount the line-based decoder stores for the token t
\* (_to_decimal, then the sign correction)
HeadAmount(t) == CorrectSign(t, _to_decimal(t).dec)

\* C11: a leading Unicode minus is the same negation as an ASCII hyphen, in
\* the line-based and in the tabular extractor: the amount decoded from the
\* token equals the amount decoded from its ASCII spelling, and it is
\* negative (direction expense) whenever its magnitude is not zero.
C11_UnicodeMinusNegates ==
    UnicodeMinusToken(value) =>
        /\ toDecimalResult.status = "returned" =>
              /\ DecEq(CorrectSign(value, toDecimalResult.dec),
                       HeadAmount(WithAsciiHyphen(value)))
              /\ toDecimalResult.dec.coef # 0 =>
                    DirectionOf(CorrectSign(value, toDecimalResult.dec)) = "expense"
        /\ parseAmountResult.status = "returned" =>
              /\ DecEq(parseAmountResult.dec,
                       _parse_amount(WithAsciiHyphen(value)).dec)
              /\ parseAmountResult.dec.coef # 0 =>
                    DirectionOf(parseAmountResult.dec) = "expense"

\* the 0-based indices at which a configured marker occurs in txt, whatever
\* the case of the letters of txt
MarkerIndices(txt, markers) ==
    {Find(LowerStr(txt), LowerStr(markers[k])) : k \in 1..Len(markers)} \ {-1}

\* C12: strip_footer cuts the text at the smallest index at which any of
\* the configured markers occurs, whatever the order of the list; a text
\* in which no marker occurs is returned unchanged.
C12_EarliestMarkerCut ==
    stripped.done =>
        LET hits == MarkerIndices(text, FOOTER_MARKERS)
        IN  IF hits = {} THEN stripped.str = text
            ELSE \E i \in hits :
                    /\ \A j \in hits : i <= j
                    /\ stripped.str = SubSeq(text, 1, i)

\* the line starts a transaction and the decoder of parse_freedom_pdf
\* returns None for it
HeadFailsToDecode(line) ==
    /\ DATE_START_RE_match(line)
    /\ ~_parse_head_line(line).raised
    /\ _parse_head_line(line).head = <<>>

\* C13: on a transaction-start line the open block, if any, is flushed
\* before the line is decoded; when the decoder returns no match the
\* reconstructor is Idle, and a non-start line met while Idle is discarded:
\* it changes neither the records already flushed nor the block a later
\* head opens, which starts from the details of its own head alone.
C13_FailedHeadGoesIdle ==
    [][(bank = "freedom" /\ UnitConsumed) =>
          LET line == ConsumedUnit
          IN  /\ DATE_START_RE_match(line) =>
                    /\ current_tx # <<>> =>
                          txs' = Append(txs, [current_tx[1] EXCEPT
                                    !.description = clean_description(@)])
                    /\ current_tx = <<>> => txs' = txs
                    /\ HeadFailsToDecode(line) => current_tx' = <<>>
                    /\ DecodesAsHead(line) =>
                          /\ current_tx' = _parse_head_line(line).head
                          /\ current_tx'[1].description = line.details
              /\ ~DATE_START_RE_match(line) =>
                    /\ txs' = txs
                    /\ current_tx = <<>> => current_tx' = <<>>
    ]_vars

\* a head, a start line that is no head, a text line: the block of the head
\* was flushed with its own description and the text line went nowhere
C13_Witness ==
    /\ bank = "freedom" /\ pc = "lines"
    /\ CurrentUnits = <<HeadExpense, StartOnly, TextLine(<<"b">>)>>
    /\ HeadFailsToDecode(StartOnly)
    /\ Len(txs) = 1 /\ txs[1].description = <<"a">>
    /\ current_tx = <<>>

\* the index i is known and names a cell of row that contains kw
PointsAt(i, row, kw) ==
    /\ i # <<>>
    /\ InRow(row, i)
    /\ Contains(LowerStr(Cell(row, i)), kw)

\* the row consumed in this step is a header row
HeaderConsumed ==
    /\ bank = "kaspi" /\ UnitConsumed
    /\ _looks_like_header(NormalizeRow(ConsumedUnit))

\* C14: after a header row each of the date, amount and operation indices
\* is the position of a cell of that row containing its substring, also
\* when one cell holds two of the substrings; none is left unknown or
\* left at a value of an earlier header; the header row yields no record.
C14_HeaderAssignsAll ==
    [][HeaderConsumed =>
          LET row == NormalizeRow(ConsumedUnit)
          IN  /\ PointsAt(idx_date', row, KwDate)
              /\ PointsAt(idx_amount', row, KwAmount)
              /\ PointsAt(idx_operation', row, KwOperation)
              /\ transactions' = transactions
    ]_vars

\* the cell parses under the two-digit-year format "%d.%m.%y"
TwoDigitYearDate(cell) == ~strptime(Strip(cell), FALSE).raised

\* C15: the tabular extractor emits no record while the date, amount or
\* operation column is unknown; a record is emitted only by the step that
\* consumes a row which comes after a header row of the document, is no
\* header row, has a first cell with the date prefix dd.dd.dd and has at
\* the date column a cell that parses under the two-digit-year format; it
\* emits one record.
C15_RecordsOnlyFromDataRows ==
    [][bank = "kaspi" =>
          /\ ~MappingKnown(Indices') => transactions' = <<>>
          /\ transactions' # transactions =>
                /\ UnitConsumed
                /\ MappingKnown(Indices)
                /\ HeaderRowsOf(FlatUnits(doc)) # {}
                /\ LET row == NormalizeRow(ConsumedUnit)
                   IN  /\ ~_looks_like_header(row)
                       /\ row # <<>> /\ DatePrefix(row[1])
                       /\ InRow(row, idx_date)
                       /\ TwoDigitYearDate(Cell(row, idx_date))
                /\ Len(transactions') = Len(transactions) + 1
    ]_vars

\* a data row, the header, the same data row: only the row after the header
\* gave a record
C15_Witness ==
    /\ bank = "kaspi" /\ pc = "rows"
    /\ CurrentUnits = <<RowExpense, HeaderFull, RowExpense>>
    /\ MappingKnown(Indices)
    /\ Len(transactions) = 1

=============================================================================
